---- MODULE Spec2Model ----
(***************************************************************************)
(* Model of receipt_scanner/ocr_space.py: the OCR.space result model, the  *)
(* table reconstruction (tableize) and the field extraction heuristics of  *)
(* ReceiptSummary (vendor, total_guess).                                   *)
(*                                                                         *)
(* Text is modelled at character level: a Python str is a sequence of      *)
(* one-character strings, and str.splitlines, str.strip, str.split, re.sub *)
(* and re.search are operators over such sequences.  A Python float parsed *)
(* from a \d+[.,]\d{2} match is kept as an exact number of hundredths.     *)
(***************************************************************************)
EXTENDS Integers, Sequences, FiniteSets, TLC

VARIABLES
    parsed_text,   \* OCRSpaceResult.parsed_results[0].parsed_text (class attribute)
    loaded,        \* TRUE once OCRSpaceResult.from_dict has run
    summary,       \* the ReceiptSummary objects
    calls,         \* per summary: value of its latest total_guess() since its last assignment
    last,          \* the latest call on a summary and what it returned
    lines,         \* OCRSpaceOverlay.lines of the page under tableize
    table,         \* what tableize returned (row-groups of references into lines)
    pc,            \* position of the table / line operation
    cmp            \* outcome of the latest is_same_line call

vars == <<parsed_text, loaded, summary, calls, last, lines, table, pc, cmp>>

textVars == <<parsed_text, loaded, summary, calls, last>>
tableVars == <<lines, table, pc, cmp>>

(***************************************************************************)
(* Bounds of the model.                                                    *)
(***************************************************************************)
MaxTextLines == 2    \* lines of a first-page text
NumSummaries == 2    \* ReceiptSummary objects alive at once
MaxOvLines == 3      \* lines of an overlay
MaxCoord == 1        \* largest Left / Top of a word
MaxWords == 2        \* words of a line handed to is_same_line

(***************************************************************************)
(* Characters and character classes (Python re: \d, \w, \s; IGNORECASE).   *)
(***************************************************************************)
Digits == <<"0", "1", "2", "3", "4", "5", "6", "7", "8", "9">>
Lower == <<"a", "b", "c", "d", "e", "f", "g", "h", "i", "j", "k", "l", "m",
           "n", "o", "p", "q", "r", "s", "t", "u", "v", "w", "x", "y", "z">>
Upper == <<"A", "B", "C", "D", "E", "F", "G", "H", "I", "J", "K", "L", "M",
           "N", "O", "P", "Q", "R", "S", "T", "U", "V", "W", "X", "Y", "Z">>

Range(f) == {f[i] : i \in DOMAIN f}

IsDigit(c) == c \in Range(Digits)
IsSpace(c) == c \in {" ", "\t", "\n"}
IsWordChar(c) == c \in Range(Digits) \cup Range(Lower) \cup Range(Upper) \cup {"_"}

ToUpper(c) ==
    IF c \in Range(Lower) THEN Upper[CHOOSE i \in DOMAIN Lower : Lower[i] = c] ELSE c

DigitVal(c) == (CHOOSE i \in DOMAIN Digits : Digits[i] = c) - 1

(***************************************************************************)
(* Python values: None, a float (in hundredths) and the "n.a." string.     *)
(***************************************************************************)
None == [tag |-> "None", cents |-> 0]
Float(c) == [tag |-> "float", cents |-> c]
NaTotal == [tag |-> "str", cents |-> 0]
TOTAL_GUESS_NOT_AVALABLE_STRING == <<"n", ".", "a", ".">>

\* Python truthiness of a value held in total_guess / _cached_total_guess
Truthy(v) == IF v.tag = "float" THEN v.cents # 0 ELSE v.tag = "str"

(***************************************************************************)
(* str methods.                                                            *)
(***************************************************************************)
\* index of the first "\n" of s, or Len(s) + 1
LineEnd(s) ==
    IF \E i \in DOMAIN s : s[i] = "\n"
    THEN CHOOSE i \in DOMAIN s : s[i] = "\n" /\ \A j \in DOMAIN s : j < i => s[j] # "\n"
    ELSE Len(s) + 1

RECURSIVE splitlines(_)
splitlines(s) ==
    IF s = <<>> THEN <<>>
    ELSE LET n == LineEnd(s)
         IN  <<SubSeq(s, 1, n - 1)>> \o
             (IF n >= Len(s) THEN <<>> ELSE splitlines(SubSeq(s, n + 1, Len(s))))

strip(s) ==
    IF \A i \in DOMAIN s : IsSpace(s[i]) THEN <<>>
    ELSE LET a == CHOOSE i \in DOMAIN s :
                      ~IsSpace(s[i]) /\ \A j \in DOMAIN s : j < i => IsSpace(s[j])
             b == CHOOSE i \in DOMAIN s :
                      ~IsSpace(s[i]) /\ \A j \in DOMAIN s : j > i => IsSpace(s[j])
         IN  SubSeq(s, a, b)

\* s.split("\t"): always at least one column
RECURSIVE split_tab(_)
split_tab(s) ==
    IF \E i \in DOMAIN s : s[i] = "\t"
    THEN LET n == CHOOSE i \in DOMAIN s :
                      s[i] = "\t" /\ \A j \in DOMAIN s : j < i => s[j] # "\t"
         IN  <<SubSeq(s, 1, n - 1)>> \o split_tab(SubSeq(s, n + 1, Len(s)))
    ELSE <<s>>

(***************************************************************************)
(* ReceiptSummary.total_guess_patterns: literal patterns, IGNORECASE, the  *)
(* second anchored at the start of the searched string.                    *)
(***************************************************************************)
total_guess_patterns == <<
    [anchored |-> FALSE,
     lit |-> <<"T","O","T","A","L","E"," ","C","O","M","P","L","E","S","S","I","V","O">>],
    [anchored |-> TRUE,
     lit |-> <<"T","O","T","A","L","E">>],
    [anchored |-> FALSE,
     lit |-> <<"I","M","P","O","R","T","O"," ","P","A","G","A","T","O">>],
    [anchored |-> FALSE,
     lit |-> <<"S","U","B","T","O","T","A","L","E">>] >>

\* pattern.search(s) is not None
matches_at(p, s, i) ==
    /\ i + Len(p.lit) <= Len(s)
    /\ \A k \in DOMAIN p.lit : ToUpper(s[i + k]) = p.lit[k]

pattern_search(p, s) ==
    IF p.anchored THEN matches_at(p, s, 0)
    ELSE \E i \in 0..Len(s) : matches_at(p, s, i)

(***************************************************************************)
(* re.search(r'(\d+[\.,]\d{2,2})', col): the leftmost match, \d+ greedy.   *)
(***************************************************************************)
\* last index of the run of digits that starts at i
DigitRunEnd(s, i) ==
    CHOOSE e \in i..Len(s) :
        /\ \A j \in i..e : IsDigit(s[j])
        /\ (e = Len(s) \/ ~IsDigit(s[e + 1]))

amount_at(s, i) ==
    /\ IsDigit(s[i])
    /\ LET e == DigitRunEnd(s, i)
       IN  /\ e + 3 <= Len(s)
           /\ s[e + 1] \in {".", ","}
           /\ IsDigit(s[e + 2])
           /\ IsDigit(s[e + 3])

\* group(1) of the match, or <<>> when re.search returns None
guess_search(col) ==
    IF \E i \in DOMAIN col : amount_at(col, i)
    THEN LET i == CHOOSE i \in DOMAIN col :
                      amount_at(col, i) /\ \A j \in DOMAIN col : j < i => ~amount_at(col, j)
         IN  SubSeq(col, i, DigitRunEnd(col, i) + 3)
    ELSE <<>>

\* guess_match.group(1).replace(",", ".")
replace_comma(g) == [i \in DOMAIN g |-> IF g[i] = "," THEN "." ELSE g[i]]

RECURSIVE int_of(_)
int_of(ds) ==
    IF ds = <<>> THEN 0
    ELSE int_of(SubSeq(ds, 1, Len(ds) - 1)) * Len(Digits) + DigitVal(ds[Len(ds)])

\* float("<digits>.<dd>") in hundredths
float_of(g) ==
    LET n == Len(g)
    IN  Float(int_of(SubSeq(g, 1, n - 3)) * Len(Digits) * Len(Digits)
              + int_of(SubSeq(g, n - 1, n)))

(***************************************************************************)
(* ReceiptSummary.total_guess, lines 70-97.                                *)
(***************************************************************************)
\* len(total_line_columns) > 2
more_than_two_columns(cols) == Len(cols) > 2

\* len(total_line_columns) > 1
enough_columns(cols) == Len(cols) > 1

\* the inner for-loop over parsed_text_lines from line i on; tg is total_guess
\* as the loop found it; the value is total_guess when the loop ends or breaks.
\* float() cannot raise ValueError on a string of the matched shape, so the
\* except branch of lines 90-92 is never taken.
RECURSIVE line_loop(_, _, _, _)
line_loop(p, ls, i, tg) ==
    IF i > Len(ls) THEN tg
    ELSE LET st == strip(ls[i])
             cols == split_tab(st)
             g == guess_search(cols[Len(cols)])
         IN  IF pattern_search(p, st) /\ enough_columns(cols) /\ g # <<>>
             THEN float_of(replace_comma(g))
             ELSE line_loop(p, ls, i + 1, tg)

\* the outer for-loop over total_guess_patterns from pattern k on
RECURSIVE pattern_loop(_, _, _)
pattern_loop(k, ls, tg) ==
    IF k > Len(total_guess_patterns) THEN tg
    ELSE LET t == line_loop(total_guess_patterns[k], ls, 1, tg)
         IN  IF Truthy(t) THEN t ELSE pattern_loop(k + 1, ls, t)

\* parsed_text_lines(): None is modelled by has = FALSE
parsed_text_lines(results, text) ==
    IF results = "OCRSpaceResult"
    THEN [has |-> TRUE, ls |-> splitlines(text)]
    ELSE [has |-> FALSE, ls |-> <<>>]

total_guess(results, text, cached) ==
    LET ptl == parsed_text_lines(results, text)
    IN  IF Truthy(cached) THEN cached
        ELSE LET tg == IF ptl.has /\ ptl.ls # <<>>
                       THEN pattern_loop(1, ptl.ls, None)
                       ELSE None
             IN  IF Truthy(tg) THEN tg ELSE NaTotal

(***************************************************************************)
(* ReceiptSummary.vendor, lines 45-51.                                     *)
(***************************************************************************)
\* re.sub(r'[^\w\s]', "", s)
sub_non_word(s) == SelectSeq(s, LAMBDA c : IsWordChar(c) \/ IsSpace(c))

\* the first line that is not empty, or "" when every line is empty
first_non_empty_line(ls) ==
    IF \E i \in DOMAIN ls : ls[i] # <<>>
    THEN ls[CHOOSE i \in DOMAIN ls : ls[i] # <<>> /\ \A j \in DOMAIN ls : j < i => ls[j] = <<>>]
    ELSE <<>>

\* parsed_text_lines[0]: the line the vendor is read from
vendor_line(ls) == ls[1]

vendor(results, text) ==
    LET ptl == parsed_text_lines(results, text)
        v == IF ptl.has /\ ptl.ls # <<>>
             THEN strip(sub_non_word(vendor_line(ptl.ls)))
             ELSE <<>>
    IN  IF v # <<>> THEN v ELSE TOTAL_GUESS_NOT_AVALABLE_STRING

(***************************************************************************)
(* First-page texts (ParsedText of ParsedResults[0]) fed to the model.     *)
(***************************************************************************)
TextLines == {
    <<>>,
    <<"S","T","O","R","E"," ","X","!">>,
    <<" ","!">>,
    <<"T","O","T","A","L","E"," ","C","O","M","P","L","E","S","S","I","V","O","\t","1","2",",","5","0">>,
    <<"T","O","T","A","L","E","\t","\t","1","2",",","5","0">>,
    <<"T","O","T","A","L","E","\t","0",".","0","0">>,
    <<"T","O","T","A","L","E"," ","3",".","0","0">>,
    <<"I","M","P","O","R","T","O"," ","P","A","G","A","T","O","\t","7",".","0","0">>,
    <<"S","U","B","T","O","T","A","L","E","\t","9",".","9","9">>,
    <<"t","o","t","a","l","e","\t","5",".","0","0">>,
    <<"X"," ","T","O","T","A","L","E","\t","4",".","0","0">>,
    <<" ","T","O","T","A","L","E","\t","6",".","0","0"," ">>,
    <<"T","O","T","A","L","E","\t","X">> }

RECURSIVE JoinLines(_)
JoinLines(ls) ==
    IF ls = <<>> THEN <<>>
    ELSE IF Len(ls) = 1 THEN ls[1]
    ELSE ls[1] \o <<"\n">> \o JoinLines(Tail(ls))

Texts ==
    { JoinLines(ls) \o end :
        ls \in UNION { [1..n -> TextLines] : n \in 0..MaxTextLines },
        end \in { <<>>, <<"\n">> } }

\* the responses the summaries of SpecSummary are built from
Responses == {
    <<"S","T","O","R","E"," ","X","!","\n","T","O","T","A","L","E","\t","\t","1","2",",","5","0","\n">>,
    <<"S","H","O","P","\n","S","U","B","T","O","T","A","L","E","\t","9",".","9","9">>,
    <<>> }

Summaries == 1..NumSummaries

NoCall == [tag |-> "nocall", cents |-> 0]
NoSummary == [exists |-> FALSE, results |-> "None", cached |-> None, src |-> <<>>]
NoLast == [op |-> "none", s |-> 0, total |-> None, vendor |-> <<>>, prev |-> NoCall]

(***************************************************************************)
(* Operations on the result model and on ReceiptSummary.                   *)
(***************************************************************************)
\* OCRSpaceResult.from_dict, lines 244-252: ret is the class OCRSpaceResult
\* itself, so the decoded fields are written to the class
from_dict(r) ==
    /\ parsed_text' = r
    /\ loaded' = TRUE

\* the ocrspace_results setter, lines 40-43, given what from_dict returned;
\* src records the response that Result was decoded from
set_ocrspace_results(s, r) ==
    /\ summary' = [summary EXCEPT ![s] =
                      [exists |-> TRUE, results |-> "OCRSpaceResult",
                       cached |-> None, src |-> r]]
    /\ calls' = [calls EXCEPT ![s] = NoCall]

\* ReceiptSummary.fromOCRSpaceJsonResponse, lines 29-34, on a new summary s
FromOCRSpaceJsonResponse(s, r) ==
    /\ ~summary[s].exists
    /\ from_dict(r)
    /\ set_ocrspace_results(s, r)
    /\ last' = [NoLast EXCEPT !.op = "fromOCRSpaceJsonResponse", !.s = s]
    /\ UNCHANGED tableVars

\* summary.ocrspace_results = OCRSpaceResult.from_dict(...) on an existing summary
AssignResults(s, r) ==
    /\ summary[s].exists
    /\ from_dict(r)
    /\ set_ocrspace_results(s, r)
    /\ last' = [NoLast EXCEPT !.op = "assign", !.s = s]
    /\ UNCHANGED tableVars

\* parse_ocrspace_json_text / quick_total_from_parsed_text, lines 254-262:
\* decode a response without any summary
ParseOcrspaceJsonText(r) ==
    /\ from_dict(r)
    /\ last' = [NoLast EXCEPT !.op = "parse"]
    /\ UNCHANGED <<summary, calls>>
    /\ UNCHANGED tableVars

\* summary.total_guess(), lines 70-97; _cached_total_guess is read, never written
TotalGuess(s) ==
    /\ summary[s].exists
    /\ LET val == total_guess(summary[s].results, parsed_text, summary[s].cached)
       IN  /\ last' = [NoLast EXCEPT !.op = "total_guess", !.s = s,
                                     !.total = val, !.prev = calls[s]]
           /\ calls' = [calls EXCEPT ![s] = val]
    /\ UNCHANGED <<parsed_text, loaded, summary>>
    /\ UNCHANGED tableVars

\* summary.vendor, lines 45-51
Vendor(s) ==
    /\ summary[s].exists
    /\ last' = [NoLast EXCEPT !.op = "vendor", !.s = s,
                              !.vendor = vendor(summary[s].results, parsed_text)]
    /\ UNCHANGED <<parsed_text, loaded, summary, calls>>
    /\ UNCHANGED tableVars

TableIdle ==
    /\ lines = <<>>
    /\ table = <<>>
    /\ pc = "idle"
    /\ cmp = [a |-> 0, b |-> 0, val |-> "none"]

\* the program before any response was decoded
InitSummary ==
    /\ parsed_text = <<>>
    /\ loaded = FALSE
    /\ summary = [s \in Summaries |-> NoSummary]
    /\ calls = [s \in Summaries |-> NoCall]
    /\ last = NoLast
    /\ TableIdle

NextSummary ==
    \/ \E s \in Summaries, r \in Responses : FromOCRSpaceJsonResponse(s, r)
    \/ \E s \in Summaries, r \in Responses : AssignResults(s, r)
    \/ \E r \in Responses : ParseOcrspaceJsonText(r)
    \/ \E s \in Summaries : TotalGuess(s)
    \/ \E s \in Summaries : Vendor(s)

SpecSummary == InitSummary /\ [][NextSummary]_vars

\* one summary just built by fromOCRSpaceJsonResponse from a text of Texts
InitText ==
    /\ parsed_text \in Texts
    /\ loaded = TRUE
    /\ summary = [s \in Summaries |->
                    IF s = 1
                    THEN [exists |-> TRUE, results |-> "OCRSpaceResult",
                          cached |-> None, src |-> parsed_text]
                    ELSE NoSummary]
    /\ calls = [s \in Summaries |-> NoCall]
    /\ last = [NoLast EXCEPT !.op = "fromOCRSpaceJsonResponse", !.s = 1]
    /\ TableIdle

NextText ==
    \/ \E s \in Summaries : TotalGuess(s)
    \/ \E s \in Summaries : Vendor(s)

SpecText == InitText /\ [][NextText]_vars

(***************************************************************************)
(* Claims about the field extraction.                                      *)
(***************************************************************************)
\* the text the Result assigned to the summary of the latest call was decoded from
LastSrc == summary[last.s].src

LastColumn(line) == LET cols == split_tab(strip(line)) IN cols[Len(cols)]

\* a line qualifying for pattern k: it matches, has at least 2 tab-separated
\* columns, and its last column holds a decimal amount
Qualifies(k, line) ==
    /\ pattern_search(total_guess_patterns[k], strip(line))
    /\ Len(split_tab(strip(line))) >= 2
    /\ guess_search(LastColumn(line)) # <<>>

AmountOf(line) == float_of(replace_comma(guess_search(LastColumn(line))))

\* the amount of the topmost qualifying line of the first pattern that has one
ClaimedTotal(text) ==
    LET ls == splitlines(text)
        K == DOMAIN total_guess_patterns
        Has(k) == \E i \in DOMAIN ls : Qualifies(k, ls[i])
    IN  IF \E k \in K : Has(k)
        THEN LET k == CHOOSE k \in K : Has(k) /\ \A j \in K : j < k => ~Has(j)
                 i == CHOOSE i \in DOMAIN ls :
                          Qualifies(k, ls[i]) /\ \A j \in DOMAIN ls : j < i => ~Qualifies(k, ls[j])
             IN  AmountOf(ls[i])
        ELSE NaTotal

\* C5: total_guess returns the amount of the topmost qualifying line of the
\* first pattern (TOTALE COMPLESSIVO, line-start TOTALE, IMPORTO PAGATO,
\* SUBTOTALE) that has a qualifying line, for every amount including 0.00,
\* and "n.a." only when no pattern has a qualifying line.
C5_TotalIsFirstQualifyingAmount ==
    last.op = "total_guess" => last.total = ClaimedTotal(LastSrc)

\* the part of a text before its first line break
FirstLineOf(text) == SubSeq(text, 1, LineEnd(text) - 1)

Cleaned(line) == strip(SelectSeq(line, LAMBDA c : IsWordChar(c) \/ IsSpace(c)))

OrNa(v) == IF v = <<>> THEN TOTAL_GUESS_NOT_AVALABLE_STRING ELSE v

\* the vendor read from the first non-empty line, empty lines before it skipped
ClaimedVendor(text) ==
    LET ls == splitlines(text)
    IN  IF \E i \in DOMAIN ls : ls[i] # <<>>
        THEN LET i == CHOOSE i \in DOMAIN ls :
                          ls[i] # <<>> /\ \A j \in DOMAIN ls : j < i => ls[j] = <<>>
             IN  OrNa(Cleaned(ls[i]))
        ELSE TOTAL_GUESS_NOT_AVALABLE_STRING

\* C7 as stated: the vendor is the cleaned and trimmed first non-empty line of
\* the first page's text, empty lines before it being skipped, and "n.a." only
\* when that is empty.
C7_VendorFromFirstNonEmptyLine ==
    last.op = "vendor" => last.vendor = ClaimedVendor(LastSrc)

\* C7 as amended: the vendor is the cleaned and trimmed FIRST line of the first
\* page's text, empty or not, and "n.a." exactly when that is empty (which
\* includes an empty text and a text that starts with an empty line).
C7_VendorFromFirstLine ==
    last.op = "vendor" => last.vendor = OrNa(Cleaned(FirstLineOf(LastSrc)))

\* vendor was asked of a text that starts with an empty line followed by a
\* line with a name in it, and answered "n.a."
C7_Witness ==
    /\ last.op = "vendor"
    /\ LastSrc # <<>>
    /\ FirstLineOf(LastSrc) = <<>>
    /\ \E i \in DOMAIN LastSrc : IsWordChar(LastSrc[i])
    /\ last.vendor = TOTAL_GUESS_NOT_AVALABLE_STRING

SubtotaleLine == <<"S","U","B","T","O","T","A","L","E","\t","9",".","9","9">>

IsLabelLine(line) ==
    \E k \in DOMAIN total_guess_patterns : pattern_search(total_guess_patterns[k], strip(line))

\* the only line of the text that matches a label pattern is SUBTOTALE<TAB>9.99
OnlyLabelLineIsSubtotale(text) ==
    LET ls == splitlines(text)
    IN  /\ \E i \in DOMAIN ls : ls[i] = SubtotaleLine
        /\ \A i \in DOMAIN ls : IsLabelLine(ls[i]) => ls[i] = SubtotaleLine
        /\ Cardinality({i \in DOMAIN ls : IsLabelLine(ls[i])}) = 1

\* C8 as stated: for a text whose only label line is SUBTOTALE<TAB>9.99,
\* total_guess returns "n.a.".
C8_SubtotaleLineDisqualified ==
    (last.op = "total_guess" /\ OnlyLabelLineIsSubtotale(LastSrc)) => last.total = NaTotal

\* C8 as amended: for a text whose only label line is SUBTOTALE<TAB>9.99,
\* total_guess returns 9.99: the line has 2 tab-separated columns.
C8_SubtotaleLineYieldsAmount ==
    (last.op = "total_guess" /\ OnlyLabelLineIsSubtotale(LastSrc)) => last.total = Float(999)

\* total_guess answered 9.99 for such a text with a further, unlabelled line
C8_Witness ==
    /\ last.op = "total_guess"
    /\ OnlyLabelLineIsSubtotale(LastSrc)
    /\ Len(splitlines(LastSrc)) > 1
    /\ last.total = Float(999)

\* C3: total_guess on a summary returns the value extracted from the text its
\* currently assigned Result was decoded from, and two consecutive calls with
\* no reassignment in between return the identical value.
C3_TotalGuessFollowsAssignedResult ==
    last.op = "total_guess" =>
        /\ last.total = total_guess(summary[last.s].results, LastSrc, None)
        /\ last.prev # NoCall => last.total = last.prev

\* C4: a Result is immutable: the first-page text seen through a summary is
\* the text of the response its Result was decoded from, whatever was decoded
\* later, and the vendor a summary reports is the vendor of that response.
C4_ResultKeepsItsResponse ==
    /\ \A s \in Summaries :
           summary[s].results = "OCRSpaceResult" => parsed_text = summary[s].src
    /\ last.op = "vendor" => last.vendor = vendor(summary[last.s].results, LastSrc)

(***************************************************************************)
(* Words and lines, lines 107-182.  A line is modelled by its words; a     *)
(* bound that Python leaves None is a record with none = TRUE.             *)
(***************************************************************************)
Heights == {0, 1}
Widths == {1}
Coords == 0..MaxCoord

Words == [left : Coords, top : Coords, height : Heights, width : Widths]

bottom(w) == w.top + w.height
right(w) == w.left + w.width

SetMin(S) == CHOOSE x \in S : \A y \in S : x <= y
SetMax(S) == CHOOSE x \in S : \A y \in S : x >= y

IntBound(v) == [none |-> FALSE, v |-> v]
NoneBound == [none |-> TRUE, v |-> 0]

left_bound(l) == IF Len(l) > 0 THEN SetMin({w.left : w \in Range(l)}) ELSE -1
right_bound(l) == IF Len(l) > 0 THEN SetMax({right(w) : w \in Range(l)}) ELSE -1
lower_bound(l) == IF Len(l) > 0 THEN IntBound(SetMax({bottom(w) : w \in Range(l)})) ELSE NoneBound
upper_bound(l) == IF Len(l) > 0 THEN IntBound(SetMin({w.top : w \in Range(l)})) ELSE NoneBound

\* Python a <= b on bounds: a TypeError when either is None
le(a, b) ==
    IF a.none \/ b.none THEN "TypeError"
    ELSE IF a.v <= b.v THEN "True" ELSE "False"

\* selfhigh <= otherbottom only
is_same_line_one_sided(self, other) == le(upper_bound(self), lower_bound(other))

\* OCRSpaceLine.is_same_line, lines 154-159; `and` evaluates its right operand
\* only when the left one is true
is_same_line(self, other) ==
    LET first == le(upper_bound(self), lower_bound(other))
    IN  IF first = "True" THEN le(upper_bound(other), lower_bound(self)) ELSE first

(***************************************************************************)
(* Sorting.  sorted() and list.sort() are stable; rows and the sorted list *)
(* hold references to the lines, modelled as indices into the overlay.     *)
(***************************************************************************)
\* insert reference x into the sorted list acc, after every element whose key
\* is not greater
RECURSIVE insert_by(_, _, _)
insert_by(acc, x, key) ==
    IF acc = <<>> THEN <<x>>
    ELSE IF key[x] < key[acc[Len(acc)]]
         THEN Append(insert_by(SubSeq(acc, 1, Len(acc) - 1), x, key), acc[Len(acc)])
         ELSE Append(acc, x)

RECURSIVE stable_sort(_, _)
stable_sort(refs, key) ==
    IF refs = <<>> THEN <<>>
    ELSE insert_by(stable_sort(SubSeq(refs, 1, Len(refs) - 1), key), refs[Len(refs)], key)

\* OCRSpaceOverlay.lines_sorted_by_upperbound, lines 193-194: comparing the
\* keys of two or more lines raises TypeError when a key is None
lines_sorted_by_upperbound(ov) ==
    IF Len(ov) > 1 /\ \E i \in DOMAIN ov : upper_bound(ov[i]).none
    THEN [err |-> TRUE, refs |-> <<>>]
    ELSE [err |-> FALSE,
          refs |-> stable_sort([i \in DOMAIN ov |-> i],
                               [i \in DOMAIN ov |-> upper_bound(ov[i]).v])]

(***************************************************************************)
(* OCRSpaceParsedResult.tableize, lines 215-235.                           *)
(***************************************************************************)
\* the last member of the open row-group
rolling_anchor(tbl) == tbl[Len(tbl)][Len(tbl[Len(tbl)])]

\* previous_line = table[-1][0]
previous_line(tbl) == tbl[Len(tbl)][1]

\* table[-1:] = [[line]]: the new row-group overwrites the closed one
replace_row(tbl, ref) == SubSeq(tbl, 1, Len(tbl) - 1) \o <<<<ref>>>>

\* table.append([line])
append_row(tbl, ref) == Append(tbl, <<ref>>)

\* table[-1].sort(key=lambda col: col.left_bound)
sort_last_row(ov, tbl) ==
    [tbl EXCEPT ![Len(tbl)] =
        stable_sort(tbl[Len(tbl)], [i \in DOMAIN ov |-> left_bound(ov[i])])]

\* the for-loop from position g of the sorted list on
RECURSIVE table_loop(_, _, _, _)
table_loop(ov, refs, g, tbl) ==
    IF g > Len(refs) THEN [err |-> FALSE, table |-> tbl]
    ELSE IF g = 1 THEN table_loop(ov, refs, g + 1, append_row(tbl, refs[g]))
    ELSE LET same == is_same_line(ov[previous_line(tbl)], ov[refs[g]])
         IN  IF same = "TypeError" THEN [err |-> TRUE, table |-> <<>>]
             ELSE IF same = "True"
             THEN table_loop(ov, refs, g + 1,
                             [tbl EXCEPT ![Len(tbl)] = Append(tbl[Len(tbl)], refs[g])])
             ELSE table_loop(ov, refs, g + 1,
                             append_row(sort_last_row(ov, tbl), refs[g]))

tableize(ov) ==
    LET sorted == lines_sorted_by_upperbound(ov)
    IN  IF sorted.err THEN [err |-> TRUE, table |-> <<>>]
        ELSE table_loop(ov, sorted.refs, 1, <<>>)

(***************************************************************************)
(* Overlays fed to tableize and line pairs fed to is_same_line.            *)
(***************************************************************************)
\* a line of an overlay has no word or one word
OvLines == {<<>>} \cup {<<w>> : w \in Words}
Overlays == UNION { [1..n -> OvLines] : n \in 0..MaxOvLines }

\* the lines of a pair have up to MaxWords words, all at the left margin
PairWords == {w \in Words : w.left = 0}
PairLines == UNION { [1..n -> PairWords] : n \in 0..MaxWords }

NoCmp == [a |-> 0, b |-> 0, val |-> "none"]

TextIdle ==
    /\ parsed_text = <<>>
    /\ loaded = FALSE
    /\ summary = [s \in Summaries |-> NoSummary]
    /\ calls = [s \in Summaries |-> NoCall]
    /\ last = NoLast

\* result.parsed_results[0].tableize() on the decoded overlay
Tableize ==
    /\ pc = "start"
    /\ LET res == tableize(lines)
       IN  /\ pc' = IF res.err THEN "TypeError" ELSE "returned"
           /\ table' = res.table
    /\ UNCHANGED <<lines, cmp>>
    /\ UNCHANGED textVars

InitTable ==
    /\ lines \in Overlays
    /\ table = <<>>
    /\ pc = "start"
    /\ cmp = NoCmp
    /\ TextIdle

NextTable == Tableize

SpecTable == InitTable /\ [][NextTable]_vars

\* lines[a].is_same_line(lines[b])
IsSameLine(a, b) ==
    /\ cmp' = [a |-> a, b |-> b, val |-> is_same_line(lines[a], lines[b])]
    /\ pc' = "compared"
    /\ UNCHANGED <<lines, table>>
    /\ UNCHANGED textVars

InitLine ==
    /\ lines \in [1..2 -> PairLines]
    /\ table = <<>>
    /\ pc = "start"
    /\ cmp = NoCmp
    /\ TextIdle

NextLine == \E a \in DOMAIN lines, b \in DOMAIN lines : IsSameLine(a, b)

SpecLine == InitLine /\ [][NextLine]_vars

(***************************************************************************)
(* Claims about the table reconstruction.                                  *)
(***************************************************************************)
AllHaveWords == \A i \in DOMAIN lines : Len(lines[i]) > 0

\* the least Left of the words of the line a reference points to
LeftOf(ref) == SetMin({lines[ref][k].left : k \in DOMAIN lines[ref]})
TopOf(ref) == SetMin({lines[ref][k].top : k \in DOMAIN lines[ref]})
BottomOf(ref) == SetMax({lines[ref][k].top + lines[ref][k].height : k \in DOMAIN lines[ref]})

\* C1: every row-group of the returned table, the last one included, has its
\* lines in non-decreasing left_bound order.
C1_RowsSortedByLeftBound ==
    (pc = "returned" /\ AllHaveWords) =>
        \A g \in DOMAIN table : \A i \in DOMAIN table[g], j \in DOMAIN table[g] :
            i < j => LeftOf(table[g][i]) <= LeftOf(table[g][j])

RECURSIVE Flatten(_)
Flatten(tbl) == IF tbl = <<>> THEN <<>> ELSE tbl[1] \o Flatten(Tail(tbl))

RECURSIVE WordCount(_)
WordCount(ls) == IF ls = <<>> THEN 0 ELSE Len(ls[1]) + WordCount(Tail(ls))

\* C2: every line of the overlay is in exactly one row-group exactly once, so
\* the words of the row-groups are as many as the words of the overlay.
C2_EveryLineOnce ==
    (pc = "returned" /\ AllHaveWords) =>
        LET flat == Flatten(table)
        IN  /\ \A i \in DOMAIN lines :
                   Cardinality({k \in DOMAIN flat : flat[k] = i}) = 1
            /\ \A k \in DOMAIN flat : flat[k] \in DOMAIN lines
            /\ WordCount([k \in DOMAIN flat |-> lines[flat[k]]]) = WordCount(lines)

\* a table of several row-groups, one of them with several lines, was returned
C2_Witness ==
    /\ pc = "returned"
    /\ AllHaveWords
    /\ Len(lines) > 2
    /\ Len(table) > 1
    /\ \E g \in DOMAIN table : Len(table[g]) > 1

\* place of a line in the vertically sorted sequence: after the lines with a
\* smaller upper bound and the earlier lines with the same upper bound
PlaceOf(ref) ==
    1 + Cardinality({j \in DOMAIN lines :
                        \/ TopOf(j) < TopOf(ref)
                        \/ (TopOf(j) = TopOf(ref) /\ j < ref)})

\* the vertical spans of two lines overlap
Overlap(a, b) == TopOf(a) <= BottomOf(b) /\ TopOf(b) <= BottomOf(a)

Places(g) == {PlaceOf(table[g][i]) : i \in DOMAIN table[g]}

\* the line that started row-group g: its member placed first
StarterOf(g) == CHOOSE r \in Range(table[g]) : PlaceOf(r) = SetMin(Places(g))

\* C9: the row-groups are consecutive segments of the vertically sorted line
\* sequence; a line is in the row-group of the line that started it exactly
\* when is_same_line(starter, line) holds, and a line starts a new row-group
\* exactly when that fails for the starter of the row-group before.
C9_RowsAreAnchoredSegments ==
    (pc = "returned" /\ AllHaveWords) =>
        /\ \A g \in DOMAIN table :
              /\ table[g] # <<>>
              /\ Places(g) = SetMin(Places(g))..SetMax(Places(g))
              /\ Cardinality(Places(g)) = Len(table[g])
              /\ \A r \in Range(table[g]) : r # StarterOf(g) => Overlap(StarterOf(g), r)
        /\ \A g \in DOMAIN table :
              IF g = 1 THEN Len(lines) > 0 => SetMin(Places(g)) = 1
              ELSE /\ SetMin(Places(g)) = SetMax(Places(g - 1)) + 1
                   /\ ~Overlap(StarterOf(g - 1), StarterOf(g))
        /\ Len(lines) > 0 => (table # <<>> /\ SetMax(Places(Len(table))) = Len(lines))

\* a line that overlaps a member of the row-group before it, but not the line
\* that started that row-group, started a new row-group
C9_Witness ==
    /\ pc = "returned"
    /\ AllHaveWords
    /\ \E g \in DOMAIN table :
          /\ g > 1
          /\ Len(table[g - 1]) > 1
          /\ \E r \in Range(table[g - 1]) : Overlap(r, StarterOf(g))

\* C10: for an overlay with a line that has no words tableize fails with an
\* error and returns no table.
C10_WordlessLineFails ==
    (pc # "start" /\ ~AllHaveWords) => pc = "TypeError"

\* C6: for lines A and B with words, is_same_line(A, B) is true exactly when
\* A.upper_bound <= B.lower_bound and B.upper_bound <= A.lower_bound, and it
\* equals is_same_line(B, A).
C6_SameLineIsSymmetricOverlap ==
    (pc = "compared" /\ Len(lines[cmp.a]) > 0 /\ Len(lines[cmp.b]) > 0) =>
        /\ cmp.val \in {"True", "False"}
        /\ cmp.val = "True" <=> Overlap(cmp.a, cmp.b)
        /\ cmp.val = is_same_line(lines[cmp.b], lines[cmp.a])

\* two different lines of several words each were compared and found on the
\* same row
C6_Witness ==
    /\ pc = "compared"
    /\ cmp.a # cmp.b
    /\ Len(lines[cmp.a]) > 1
    /\ Len(lines[cmp.b]) > 1
    /\ lines[cmp.a] # lines[cmp.b]
    /\ cmp.val = "True"

====
